---------------------------- MODULE Spec2Model ----------------------------
(***************************************************************************)
(* embedded-trace: the three Future wrappers of src/src/lib.rs             *)
(* (TraceTaskFuture, TracePollFuture, TraceTaskAndPollFuture) and the GPIO  *)
(* Instrument adapters of src/src/instruments/gpio.rs.                     *)
(*                                                                         *)
(* One driver owns one future.  It wraps it with one of the TraceFuture    *)
(* methods, polls the wrapper some number of times and may drop it.  A     *)
(* poll is synchronous: one action runs the whole body of poll().  The     *)
(* order of the calls made inside one poll is kept in `trace`.             *)
(***************************************************************************)
EXTENDS Naturals, Sequences, FiniteSets

(* Bounds of the model. *)
MaxPolls == 4

(* Output values a wrapped future may complete with. *)
Values == {"a", "b"}

(* The instruments the caller owns, named after the parameter each is     *)
(* passed as; a tracer borrows them (&mut) by name.                        *)
Instruments == {"task_instrument", "poll_instrument"}

Adapters == {"Gpio", "GpioRef", "LegacyGpio", "LegacyGpioRef"}

Pending == <<"Pending">>

Ready(v) == <<"Ready", v>>

(* What a poll that did not return (an instrument call unwound) yields. *)
Unwound == <<"Unwound">>

PollResults == {Pending} \cup {Ready(v) : v \in Values}

IsReady(r) == r[1] = "Ready"

(* One hardware outcome per pin write that a single poll can make. *)
HwKeys == Instruments \X {"set_high", "set_low"}

HwOutcomes(used) == {hw \in [HwKeys -> BOOLEAN] : \A k \in HwKeys : k[1] \notin used => hw[k]}

AllOk == [k \in HwKeys |-> TRUE]

VARIABLES
    future,    \* the value the driver owns: the bare future or a tracer around it
    pins,      \* pins[i]: the OutputPin behind instrument i
    adapter,   \* adapter[i]: which Instrument implementation instrument i is
    trace,     \* trace[k]: the calls made during the k-th driver operation, in order
    results,   \* results[k]: what the k-th poll returned to the driver
    dropped,   \* whether the driver has dropped the future
    tasks,     \* tasks[c]: the c-th of two futures one driver owns, and its polls' results
    log        \* every call made during the polls of the two futures, in order

vars == <<future, pins, adapter, trace, results, dropped, tasks, log>>

-----------------------------------------------------------------------------
(* The OutputPin: a write either takes effect or fails and leaves the level. *)

set_high(pin, ok) ==
    [pin |-> [pin EXCEPT !.level = IF ok THEN "high" ELSE @, !.set_high = @ + 1],
     result |-> IF ok THEN "Ok" ELSE "Err"]

set_low(pin, ok) ==
    [pin |-> [pin EXCEPT !.level = IF ok THEN "low" ELSE @, !.set_low = @ + 1],
     result |-> IF ok THEN "Ok" ELSE "Err"]

(* The Instrument implementations.  Each discards the pin's Result        *)
(* (`let _ = ...`), so the call returns whatever the write did.           *)

(* Gpio::on_enter had it unwrapped the Result instead of discarding it. *)
Gpio_on_enter_Unwrap(pin, ok) == [pin |-> set_high(pin, ok).pin, returned |-> ok]

Gpio_on_enter(pin, ok) == [pin |-> set_high(pin, ok).pin, returned |-> TRUE]

Gpio_on_exit(pin, ok) == [pin |-> set_low(pin, ok).pin, returned |-> TRUE]

GpioRef_on_enter(pin, ok) == [pin |-> set_high(pin, ok).pin, returned |-> TRUE]

GpioRef_on_exit(pin, ok) == [pin |-> set_low(pin, ok).pin, returned |-> TRUE]

LegacyGpio_on_enter(pin, ok) == [pin |-> set_high(pin, ok).pin, returned |-> TRUE]

LegacyGpio_on_exit(pin, ok) == [pin |-> set_low(pin, ok).pin, returned |-> TRUE]

LegacyGpioRef_on_enter(pin, ok) == [pin |-> set_high(pin, ok).pin, returned |-> TRUE]

LegacyGpioRef_on_exit(pin, ok) == [pin |-> set_low(pin, ok).pin, returned |-> TRUE]

(* Instrument::on_enter / on_exit, dispatched on the implementing type. *)
Instrument_on_enter(a, pin, ok) ==
    CASE a = "Gpio" -> Gpio_on_enter(pin, ok)
      [] a = "GpioRef" -> GpioRef_on_enter(pin, ok)
      [] a = "LegacyGpio" -> LegacyGpio_on_enter(pin, ok)
      [] a = "LegacyGpioRef" -> LegacyGpioRef_on_enter(pin, ok)

Instrument_on_exit(a, pin, ok) ==
    CASE a = "Gpio" -> Gpio_on_exit(pin, ok)
      [] a = "GpioRef" -> GpioRef_on_exit(pin, ok)
      [] a = "LegacyGpio" -> LegacyGpio_on_exit(pin, ok)
      [] a = "LegacyGpioRef" -> LegacyGpioRef_on_exit(pin, ok)

-----------------------------------------------------------------------------
(* The environment of one poll: env.pins the pins, env.ev the calls made so *)
(* far in this poll, env.hw the hardware outcome of each pin write,         *)
(* env.answer what the wrapped future returns if it is polled now,          *)
(* env.unwinding whether a call failed to return (the rest of the body is   *)
(* then skipped).                                                           *)

NewEnv(p, hw, answer) ==
    [pins |-> p, ev |-> <<>>, hw |-> hw, answer |-> answer, unwinding |-> FALSE]

(* `instrument.on_enter()` as a statement of a poll body. *)
on_enter(i, env) ==
    IF env.unwinding THEN env
    ELSE LET r == Instrument_on_enter(adapter[i], env.pins[i], env.hw[<<i, "set_high">>])
         IN [env EXCEPT !.pins[i] = r.pin,
                        !.ev = Append(@, <<i, "on_enter">>),
                        !.unwinding = ~r.returned]

(* `instrument.on_exit()` as a statement of a poll body. *)
on_exit(i, env) ==
    IF env.unwinding THEN env
    ELSE LET r == Instrument_on_exit(adapter[i], env.pins[i], env.hw[<<i, "set_low">>])
         IN [env EXCEPT !.pins[i] = r.pin,
                        !.ev = Append(@, <<i, "on_exit">>),
                        !.unwinding = ~r.returned]

(* The wrapped future F, any Future: a poll of it returns Pending or       *)
(* Ready(v); this.history keeps what its polls returned so far.            *)
F_poll(this, env) ==
    [this |-> [this EXCEPT !.history = Append(@, env.answer)],
     env |-> [env EXCEPT !.ev = Append(@, <<"fut", "poll">>)],
     result |-> env.answer]

RECURSIVE Future_poll(_, _)

(* The delegate poll had the body polled the wrapped future a second time. *)
fut_poll_Twice(fut, env) ==
    IF env.unwinding THEN [this |-> fut, env |-> env, result |-> Unwound]
    ELSE LET first == F_poll(fut, env) IN F_poll(first.this, first.env)

(* `this.fut.poll(cx)` as a statement of a poll body; the wrapped future   *)
(* is any Future, another tracer included.                                 *)
fut_poll(fut, env) ==
    IF env.unwinding THEN [this |-> fut, env |-> env, result |-> Unwound]
    ELSE Future_poll(fut, env)

(* TraceTaskFuture::poll had it never set polled_once. *)
TraceTaskFuture_poll_NoFlag(this, env) ==
    LET e1 == IF ~this.polled_once THEN on_enter(this.instrument, env) ELSE env
        p == fut_poll(this.fut, e1)
        e2 == IF IsReady(p.result) THEN on_exit(this.instrument, p.env) ELSE p.env
    IN [this |-> [this EXCEPT !.fut = p.this],
        env |-> e2,
        result |-> IF e2.unwinding THEN Unwound ELSE p.result]

(* TraceTaskFuture::poll had it cleared polled_once on completion. *)
TraceTaskFuture_poll_ResetOnReady(this, env) ==
    LET e1 == IF ~this.polled_once THEN on_enter(this.instrument, env) ELSE env
        p == fut_poll(this.fut, e1)
        e2 == IF IsReady(p.result) THEN on_exit(this.instrument, p.env) ELSE p.env
    IN [this |-> [this EXCEPT !.polled_once = ~IsReady(p.result), !.fut = p.this],
        env |-> e2,
        result |-> IF e2.unwinding THEN Unwound ELSE p.result]

(* TraceTaskFuture::poll had its Poll::Ready arm not called on_exit. *)
TraceTaskFuture_poll_NoExit(this, env) ==
    LET e1 == IF ~this.polled_once THEN on_enter(this.instrument, env) ELSE env
        polled_once == IF e1.unwinding THEN this.polled_once ELSE TRUE
        p == fut_poll(this.fut, e1)
    IN [this |-> [this EXCEPT !.polled_once = polled_once, !.fut = p.this],
        env |-> p.env,
        result |-> IF p.env.unwinding THEN Unwound ELSE p.result]

(* TraceTaskFuture::poll *)
TraceTaskFuture_poll(this, env) ==
    LET e1 == IF ~this.polled_once THEN on_enter(this.instrument, env) ELSE env
        polled_once == IF e1.unwinding THEN this.polled_once ELSE TRUE
        p == fut_poll(this.fut, e1)
        e2 == IF IsReady(p.result) THEN on_exit(this.instrument, p.env) ELSE p.env
    IN [this |-> [this EXCEPT !.polled_once = polled_once, !.fut = p.this],
        env |-> e2,
        result |-> IF e2.unwinding THEN Unwound ELSE p.result]

(* TracePollFuture::poll had it called on_exit only on Poll::Ready. *)
TracePollFuture_poll_ExitOnReady(this, env) ==
    LET e1 == on_enter(this.instrument, env)
        p == fut_poll(this.fut, e1)
        e2 == IF IsReady(p.result) THEN on_exit(this.instrument, p.env) ELSE p.env
    IN [this |-> [this EXCEPT !.fut = p.this],
        env |-> e2,
        result |-> IF e2.unwinding THEN Unwound ELSE p.result]

(* TracePollFuture::poll *)
TracePollFuture_poll(this, env) ==
    LET e1 == on_enter(this.instrument, env)
        p == fut_poll(this.fut, e1)
        e2 == on_exit(this.instrument, p.env)
    IN [this |-> [this EXCEPT !.fut = p.this],
        env |-> e2,
        result |-> IF e2.unwinding THEN Unwound ELSE p.result]

(* TraceTaskAndPollFuture::poll had it called the task-level on_exit on     *)
(* every poll.                                                             *)
TraceTaskAndPollFuture_poll_ExitAlways(this, env) ==
    LET e1 == IF ~this.polled_once THEN on_enter(this.task_instrument, env) ELSE env
        polled_once == IF e1.unwinding THEN this.polled_once ELSE TRUE
        e2 == on_enter(this.poll_instrument, e1)
        p == fut_poll(this.fut, e2)
        e3 == on_exit(this.poll_instrument, p.env)
        e4 == on_exit(this.task_instrument, e3)
    IN [this |-> [this EXCEPT !.polled_once = polled_once, !.fut = p.this],
        env |-> e4,
        result |-> IF e4.unwinding THEN Unwound ELSE p.result]

(* TraceTaskAndPollFuture::poll had it called the task-level on_exit       *)
(* before the step-level one.                                              *)
TraceTaskAndPollFuture_poll_TaskExitFirst(this, env) ==
    LET e1 == IF ~this.polled_once THEN on_enter(this.task_instrument, env) ELSE env
        polled_once == IF e1.unwinding THEN this.polled_once ELSE TRUE
        e2 == on_enter(this.poll_instrument, e1)
        p == fut_poll(this.fut, e2)
        e3 == IF IsReady(p.result) THEN on_exit(this.task_instrument, p.env) ELSE p.env
        e4 == on_exit(this.poll_instrument, e3)
    IN [this |-> [this EXCEPT !.polled_once = polled_once, !.fut = p.this],
        env |-> e4,
        result |-> IF e4.unwinding THEN Unwound ELSE p.result]

(* TraceTaskAndPollFuture::poll had it never set polled_once. *)
TraceTaskAndPollFuture_poll_NoFlag(this, env) ==
    LET e1 == IF ~this.polled_once THEN on_enter(this.task_instrument, env) ELSE env
        e2 == on_enter(this.poll_instrument, e1)
        p == fut_poll(this.fut, e2)
        e3 == on_exit(this.poll_instrument, p.env)
        e4 == IF IsReady(p.result) THEN on_exit(this.task_instrument, e3) ELSE e3
    IN [this |-> [this EXCEPT !.fut = p.this],
        env |-> e4,
        result |-> IF e4.unwinding THEN Unwound ELSE p.result]

(* TraceTaskAndPollFuture::poll had it entered the step span before the    *)
(* task span.                                                              *)
TraceTaskAndPollFuture_poll_StepEnterFirst(this, env) ==
    LET e1 == on_enter(this.poll_instrument, env)
        e2 == IF ~this.polled_once THEN on_enter(this.task_instrument, e1) ELSE e1
        polled_once == IF e2.unwinding THEN this.polled_once ELSE TRUE
        p == fut_poll(this.fut, e2)
        e3 == on_exit(this.poll_instrument, p.env)
        e4 == IF IsReady(p.result) THEN on_exit(this.task_instrument, e3) ELSE e3
    IN [this |-> [this EXCEPT !.polled_once = polled_once, !.fut = p.this],
        env |-> e4,
        result |-> IF e4.unwinding THEN Unwound ELSE p.result]

(* TraceTaskAndPollFuture::poll *)
TraceTaskAndPollFuture_poll(this, env) ==
    LET e1 == IF ~this.polled_once THEN on_enter(this.task_instrument, env) ELSE env
        polled_once == IF e1.unwinding THEN this.polled_once ELSE TRUE
        e2 == on_enter(this.poll_instrument, e1)
        p == fut_poll(this.fut, e2)
        e3 == on_exit(this.poll_instrument, p.env)
        e4 == IF IsReady(p.result) THEN on_exit(this.task_instrument, e3) ELSE e3
    IN [this |-> [this EXCEPT !.polled_once = polled_once, !.fut = p.this],
        env |-> e4,
        result |-> IF e4.unwinding THEN Unwound ELSE p.result]

(* Future::poll, dispatched on the type of the future the driver holds. *)
Future_poll(this, env) ==
    CASE this.type = "TraceTaskFuture" -> TraceTaskFuture_poll(this, env)
      [] this.type = "TracePollFuture" -> TracePollFuture_poll(this, env)
      [] this.type = "TraceTaskAndPollFuture" -> TraceTaskAndPollFuture_poll(this, env)
      [] this.type = "F" -> F_poll(this, env)

(* TraceFuture::trace_task had it built the tracer with polled_once set. *)
trace_task_Entered(self, instrument) ==
    [type |-> "TraceTaskFuture", fut |-> self, instrument |-> instrument,
     polled_once |-> TRUE]

(* TraceFuture::trace_task *)
trace_task(self, instrument) ==
    [type |-> "TraceTaskFuture", fut |-> self, instrument |-> instrument,
     polled_once |-> FALSE]

(* TraceFuture::trace_poll *)
trace_poll(self, instrument) ==
    [type |-> "TracePollFuture", fut |-> self, instrument |-> instrument]

(* TraceFuture::trace_task_and_poll *)
trace_task_and_poll(self, task_instrument, poll_instrument) ==
    [type |-> "TraceTaskAndPollFuture", fut |-> self,
     task_instrument |-> task_instrument, poll_instrument |-> poll_instrument,
     polled_once |-> FALSE]

(* Dropping had the tracers implemented Drop to close an open task span. *)
drop_in_place_ExitIfEntered(this, env) ==
    CASE this.type = "TraceTaskFuture" /\ this.polled_once -> on_exit(this.instrument, env)
      [] this.type = "TraceTaskAndPollFuture" /\ this.polled_once ->
            on_exit(this.task_instrument, env)
      [] OTHER -> env

(* Dropping a tracer: none of the three types implements Drop, so only the *)
(* fields are released; no instrument is called.                           *)
drop_in_place(this, env) == env

-----------------------------------------------------------------------------
(* The driver. *)

NewPin == [level |-> "low", set_high |-> 0, set_low |-> 0]

Init ==
    /\ future = [type |-> "F", history |-> <<>>]
    /\ pins = [i \in Instruments |-> NewPin]
    /\ adapter = [i \in Instruments |-> "none"]
    /\ trace = <<>>
    /\ results = <<>>
    /\ dropped = FALSE
    /\ tasks = <<>>
    /\ log = <<>>

Wrapped == future.type # "F"

CanPoll ==
    /\ Wrapped
    /\ ~dropped
    /\ Len(results) < MaxPolls
    /\ (results # <<>> => results[Len(results)] # Unwound)

(* The instruments a tracer holds. *)
Borrowed(this) ==
    CASE this.type = "TraceTaskFuture" -> {this.instrument}
      [] this.type = "TracePollFuture" -> {this.instrument}
      [] this.type = "TraceTaskAndPollFuture" -> {this.task_instrument, this.poll_instrument}
      [] OTHER -> {}

(* The caller builds the instrument(s) over its pin(s) and wraps the future. *)
WrapTask ==
    /\ ~Wrapped /\ ~dropped
    /\ future' = trace_task(future, "task_instrument")
    /\ \E a \in Adapters : adapter' = [adapter EXCEPT !["task_instrument"] = a]
    /\ UNCHANGED <<pins, trace, results, dropped, tasks, log>>

WrapPoll ==
    /\ ~Wrapped /\ ~dropped
    /\ future' = trace_poll(future, "poll_instrument")
    /\ \E a \in Adapters : adapter' = [adapter EXCEPT !["poll_instrument"] = a]
    /\ UNCHANGED <<pins, trace, results, dropped, tasks, log>>

WrapTaskAndPoll ==
    /\ ~Wrapped /\ ~dropped
    /\ future' = trace_task_and_poll(future, "task_instrument", "poll_instrument")
    /\ \E a \in [Instruments -> Adapters] : adapter' = a
    /\ UNCHANGED <<pins, trace, results, dropped, tasks, log>>

(* One resumption: the driver calls poll() on the tracer it holds; r is    *)
(* what that call did.                                                     *)
Resumed(r) ==
    /\ future' = r.this
    /\ pins' = r.env.pins
    /\ trace' = Append(trace, r.env.ev)
    /\ results' = Append(results, r.result)
    /\ UNCHANGED <<adapter, dropped, tasks, log>>

PollTask ==
    /\ CanPoll
    /\ future.type = "TraceTaskFuture"
    /\ \E hw \in HwOutcomes(Borrowed(future)) : \E answer \in PollResults :
          Resumed(Future_poll(future, NewEnv(pins, hw, answer)))

PollPoll ==
    /\ CanPoll
    /\ future.type = "TracePollFuture"
    /\ \E hw \in HwOutcomes(Borrowed(future)) : \E answer \in PollResults :
          Resumed(Future_poll(future, NewEnv(pins, hw, answer)))

PollTaskAndPoll ==
    /\ CanPoll
    /\ future.type = "TraceTaskAndPollFuture"
    /\ \E hw \in HwOutcomes(Borrowed(future)) : \E answer \in PollResults :
          Resumed(Future_poll(future, NewEnv(pins, hw, answer)))

Drop ==
    /\ Wrapped /\ ~dropped
    /\ \E hw \in HwOutcomes(Borrowed(future)) :
          LET e == drop_in_place(future, NewEnv(pins, hw, Pending))
          IN /\ pins' = e.pins
             /\ trace' = IF e.ev = <<>> THEN trace ELSE Append(trace, e.ev)
    /\ dropped' = TRUE
    /\ UNCHANGED <<future, adapter, results, tasks, log>>

Next ==
    \/ WrapTask
    \/ WrapPoll
    \/ WrapTaskAndPoll
    \/ PollTask
    \/ PollPoll
    \/ PollTaskAndPoll
    \/ Drop

Spec == Init /\ [][Next]_vars

-----------------------------------------------------------------------------
(* Vocabulary of the properties. *)

RECURSIVE Flat(_)
(* The calls of all driver operations so far, in order. *)
Flat(t) == IF t = <<>> THEN <<>> ELSE Flat(SubSeq(t, 1, Len(t) - 1)) \o t[Len(t)]

(* The calls instrument i received, in order. *)
CallsOn(i, evs) ==
    LET mine == SelectSeq(evs, LAMBDA e : e[1] = i)
    IN [k \in 1..Len(mine) |-> mine[k][2]]

Count(i, call) == Len(SelectSeq(Flat(trace), LAMBDA e : e = <<i, call>>))

(* The index of the first Ready in s, 0 if there is none. *)
FirstReady(s) ==
    IF \E k \in 1..Len(s) : IsReady(s[k])
    THEN CHOOSE k \in 1..Len(s) : IsReady(s[k]) /\ \A j \in 1..(k - 1) : ~IsReady(s[j])
    ELSE 0

(* What the wrapped future's polls returned so far. *)
History == IF Wrapped THEN future.fut.history ELSE future.history

(* The number of steps the wrapped future needed to complete (0: it has not *)
(* completed yet).                                                          *)
NeededSteps == FirstReady(History)

(* The number of resumptions the driver has performed. *)
Resumptions == Len(results)

(* The driver has not resumed the tracer after it reported completion. *)
NoResumeAfterCompletion == \A k \in 1..(Resumptions - 1) : ~IsReady(results[k])

(* The driver has just performed the resumption that completed the future. *)
JustCompleted == NeededSteps >= 1 /\ Resumptions = NeededSteps

FutPoll == <<"fut", "poll">>

Enter(i) == <<i, "on_enter">>

Exit(i) == <<i, "on_exit">>

RECURSIVE Fresh(_)
(* The future as it was before its first poll. *)
Fresh(this) ==
    CASE this.type = "F" -> [this EXCEPT !.history = <<>>]
      [] this.type = "TraceTaskFuture" -> trace_task(Fresh(this.fut), this.instrument)
      [] this.type = "TracePollFuture" -> trace_poll(Fresh(this.fut), this.instrument)
      [] this.type = "TraceTaskAndPollFuture" ->
            trace_task_and_poll(Fresh(this.fut), this.task_instrument, this.poll_instrument)

RECURSIVE Drive(_, _)
(* The run in which a driver polls future f0 Len(answers) times and the     *)
(* wrapped future returns answers[k] at its k-th poll, over pins whose      *)
(* writes never fail.                                                       *)
Drive(f0, answers) ==
    IF answers = <<>>
    THEN [this |-> f0, pins |-> [i \in Instruments |-> NewPin],
          trace |-> <<>>, results |-> <<>>]
    ELSE LET n == Len(answers)
             prev == Drive(f0, SubSeq(answers, 1, n - 1))
             r == Future_poll(prev.this, NewEnv(prev.pins, AllOk, answers[n]))
         IN [this |-> r.this, pins |-> r.env.pins,
             trace |-> Append(prev.trace, r.env.ev),
             results |-> Append(prev.results, r.result)]

-----------------------------------------------------------------------------
(* C1.  Step-Tracer: when a future that needs N >= 1 steps has been resumed *)
(* N times through trace_poll, the instrument has received exactly N        *)
(* on_enter and N on_exit calls, and every step was on_enter, the delegate  *)
(* poll, on_exit, whether the delegate returned Pending or Ready.           *)
C1_StepTracerPairPerStep ==
    (future.type = "TracePollFuture" /\ JustCompleted) =>
        LET i == future.instrument
        IN /\ Count(i, "on_enter") = NeededSteps
           /\ Count(i, "on_exit") = NeededSteps
           /\ \A k \in 1..NeededSteps : trace[k] = <<Enter(i), FutPoll, Exit(i)>>

C1_Witness ==
    /\ future.type = "TracePollFuture"
    /\ JustCompleted
    /\ NeededSteps = 3
    /\ results = <<Pending, Pending, Ready("a")>>

(* C2.  Task-Tracer: when a future that needs N >= 1 steps has been resumed *)
(* N times through trace_task, on_enter fired once, in step 1 before the    *)
(* delegate poll, and on_exit fired once, in step N after the delegate      *)
(* returned Ready; steps 2..N have no on_enter, steps 1..N-1 no on_exit.    *)
C2_TaskTracerOnePair ==
    (future.type = "TraceTaskFuture" /\ JustCompleted) =>
        LET i == future.instrument
            N == NeededSteps
        IN /\ Count(i, "on_enter") = 1
           /\ Count(i, "on_exit") = 1
           /\ \A k \in 1..N :
                 trace[k] = (IF k = 1 THEN <<Enter(i)>> ELSE <<>>)
                            \o <<FutPoll>>
                            \o (IF k = N THEN <<Exit(i)>> ELSE <<>>)
           /\ IsReady(History[N])

C2_Witness ==
    /\ future.type = "TraceTaskFuture"
    /\ JustCompleted
    /\ NeededSteps = 3
    /\ Flat(trace) = <<Enter(future.instrument), FutPoll, FutPoll, FutPoll,
                       Exit(future.instrument)>>

(* C3.  Combined-Tracer counters: after the k-th resumption of a future     *)
(* that needs N steps, 1 <= k <= N, task-enter = 1, step-enter = k,         *)
(* step-exit = k, and task-exit = 0 if k < N, 1 if k = N.                   *)
C3_CombinedCounters ==
    (future.type = "TraceTaskAndPollFuture" /\ Resumptions >= 1
       /\ NoResumeAfterCompletion) =>
        LET k == Resumptions
            TE == Count(future.task_instrument, "on_enter")
            SE == Count(future.poll_instrument, "on_enter")
            SX == Count(future.poll_instrument, "on_exit")
            TX == Count(future.task_instrument, "on_exit")
        IN /\ TE = 1
           /\ SE = k
           /\ SX = k
           /\ TX = (IF NeededSteps = k THEN 1 ELSE 0)
           /\ NeededSteps \in {0, k}

C3_Witness ==
    /\ future.type = "TraceTaskAndPollFuture"
    /\ History = <<Pending, Pending, Ready("b")>>
    /\ Resumptions = 3
    /\ Count(future.task_instrument, "on_enter") = 1
    /\ Count(future.poll_instrument, "on_enter") = 3
    /\ Count(future.poll_instrument, "on_exit") = 3
    /\ Count(future.task_instrument, "on_exit") = 1

(* C4.  Combined-Tracer ordering: every resumption emits, in this order,    *)
(* [task on_enter, first resumption only], step on_enter, the delegate      *)
(* poll, step on_exit, [task on_exit, only if the delegate returned Ready]; *)
(* so the task on_enter is the first event of the run, and when the future  *)
(* has just completed the task on_exit is the last event, right after the   *)
(* step on_exit of the terminal step.                                       *)
C4_CombinedOrder ==
    (future.type = "TraceTaskAndPollFuture") =>
        LET t == future.task_instrument
            p == future.poll_instrument
            all == Flat(trace)
        IN /\ \A k \in 1..Resumptions :
                 trace[k] = (IF k = 1 THEN <<Enter(t)>> ELSE <<>>)
                            \o <<Enter(p), FutPoll, Exit(p)>>
                            \o (IF IsReady(History[k]) THEN <<Exit(t)>> ELSE <<>>)
           /\ \A n \in 1..Len(all) : all[n] = Enter(t) => n = 1
           /\ Resumptions >= 1 => all[1] = Enter(t)
           /\ JustCompleted =>
                 /\ all[Len(all)] = Exit(t)
                 /\ all[Len(all) - 1] = Exit(p)
                 /\ \A n \in 1..(Len(all) - 1) : all[n] # Exit(t)

C4_Witness ==
    /\ future.type = "TraceTaskAndPollFuture"
    /\ JustCompleted
    /\ NeededSteps = 2
    /\ Flat(trace) = <<Enter("task_instrument"), Enter("poll_instrument"), FutPoll,
                       Exit("poll_instrument"), Enter("poll_instrument"), FutPoll,
                       Exit("poll_instrument"), Exit("task_instrument")>>

(* C5.  Transparency: each resumption of any tracer polls the wrapped       *)
(* future exactly once and returns what that poll returned, so the results  *)
(* the driver sees and the state and polls of the wrapped future are those  *)
(* of driving the unwrapped future the same number of times; a tracer       *)
(* returns Pending only when the wrapped future did.                        *)
C5_Transparency ==
    Wrapped =>
        LET bare == Drive(Fresh(future.fut), History)
        IN /\ Len(History) = Resumptions
           /\ results = History
           /\ results = bare.results
           /\ future.fut = bare.this
           /\ \A k \in 1..Resumptions :
                 Len(SelectSeq(trace[k], LAMBDA e : e = FutPoll)) = 1

C5_Witness ==
    /\ Wrapped
    /\ results = <<Pending, Ready("b")>>
    /\ future.fut.history = <<Pending, Ready("b")>>

(* C6.  Early abandonment: dropping a tracer emits no signal and touches no *)
(* pin; a Task- or Combined-Tracer dropped after k >= 1 resumptions while   *)
(* the future is still pending ends with one task-level on_enter and no     *)
(* on_exit, and a step-level instrument ends with its k on_enter and k      *)
(* on_exit calls.                                                           *)
C6_AbandonedCounts ==
    (dropped /\ Resumptions >= 1 /\ ~IsReady(results[Resumptions])
       /\ NoResumeAfterCompletion) =>
        LET k == Resumptions
        IN /\ Len(trace) = k
           /\ future.type = "TraceTaskFuture" =>
                 /\ Count(future.instrument, "on_enter") = 1
                 /\ Count(future.instrument, "on_exit") = 0
           /\ future.type = "TraceTaskAndPollFuture" =>
                 /\ Count(future.task_instrument, "on_enter") = 1
                 /\ Count(future.task_instrument, "on_exit") = 0
                 /\ Count(future.poll_instrument, "on_enter") = k
                 /\ Count(future.poll_instrument, "on_exit") = k
           /\ future.type = "TracePollFuture" =>
                 /\ Count(future.instrument, "on_enter") = k
                 /\ Count(future.instrument, "on_exit") = k

C6_DropIsSilent == (~dropped /\ dropped') => (trace' = trace /\ pins' = pins)

C6_EarlyAbandonment == []C6_AbandonedCounts /\ [][C6_DropIsSilent]_vars

C6_Witness ==
    /\ dropped
    /\ future.type = "TraceTaskFuture"
    /\ results = <<Pending, Pending>>
    /\ Flat(trace) = <<Enter(future.instrument), FutPoll, FutPoll>>
    /\ future.polled_once

(* C7.  Combined-Tracer composes the single tracers: after any sequence of  *)
(* resumptions, task_instrument has received the calls an instrument        *)
(* receives under trace_task alone on the same future, and poll_instrument  *)
(* the calls an instrument receives under trace_poll alone.                 *)
C7_CombinedIsComposition ==
    (future.type = "TraceTaskAndPollFuture") =>
        LET t == future.task_instrument
            p == future.poll_instrument
            alone_task == Drive(trace_task(Fresh(future.fut), t), History)
            alone_poll == Drive(trace_poll(Fresh(future.fut), p), History)
        IN /\ CallsOn(t, Flat(trace)) = CallsOn(t, Flat(alone_task.trace))
           /\ CallsOn(p, Flat(trace)) = CallsOn(p, Flat(alone_poll.trace))
           /\ future.polled_once = alone_task.this.polled_once

C7_Witness ==
    /\ future.type = "TraceTaskAndPollFuture"
    /\ History = <<Pending, Pending, Ready("a")>>
    /\ CallsOn("task_instrument", Flat(trace)) = <<"on_enter", "on_exit">>
    /\ Len(CallsOn("poll_instrument", Flat(trace))) = 6

(* C8.  Pin failures are absorbed: every on_enter an instrument received    *)
(* made exactly one set_high attempt and every on_exit exactly one set_low  *)
(* attempt, every call returned, and the calls, the delegate polls and the  *)
(* results of the run are those of the same run over pins that never fail.  *)
C8_PinFailuresAbsorbed ==
    Wrapped =>
        LET never_fails == Drive(Fresh(future), History)
        IN /\ \A i \in Instruments :
                 /\ pins[i].set_high = Count(i, "on_enter")
                 /\ pins[i].set_low = Count(i, "on_exit")
           /\ \A k \in 1..Resumptions : results[k] # Unwound
           /\ Len(History) = Resumptions
           /\ trace = never_fails.trace
           /\ results = never_fails.results
           /\ future = never_fails.this

C8_Witness ==
    /\ future.type = "TraceTaskAndPollFuture"
    /\ JustCompleted
    /\ NeededSteps = 2
    /\ pins["task_instrument"].level = "low"
    /\ pins["task_instrument"].set_high = 1
    /\ pins["poll_instrument"].level = "high"
    /\ pins["poll_instrument"].set_low = 2

(* The calls instrument i received during the k-th resumption. *)
CallsInStep(i, k) == CallsOn(i, trace[k])

(* A resumption after completion in which the wrapped future reports done again. *)
ResumedAfterCompletion(k) ==
    /\ NeededSteps >= 1
    /\ k \in (NeededSteps + 1)..Resumptions
    /\ IsReady(History[k])

(* C9 as stated: in a resumption after completion in which the wrapped     *)
(* future reports done again, every instrument the tracer holds receives    *)
(* one further on_enter followed by one further on_exit.                    *)
C9_ReEmitsPairOnEveryInstrument ==
    Wrapped =>
        \A k \in 1..Resumptions :
            ResumedAfterCompletion(k) =>
                \A i \in Borrowed(future) : CallsInStep(i, k) = <<"on_enter", "on_exit">>

(* C9, amended.  In a resumption after completion in which the wrapped      *)
(* future reports done again, a step-level instrument (trace_poll's, or     *)
(* poll_instrument) receives one further on_enter followed by one further   *)
(* on_exit, and a task-level instrument (trace_task's, or task_instrument)  *)
(* receives one further on_exit and no on_enter.                            *)
C9_ReEmitsAfterCompletion ==
    Wrapped =>
        \A k \in 1..Resumptions :
            ResumedAfterCompletion(k) =>
                /\ future.type = "TracePollFuture" =>
                      CallsInStep(future.instrument, k) = <<"on_enter", "on_exit">>
                /\ future.type = "TraceTaskFuture" =>
                      CallsInStep(future.instrument, k) = <<"on_exit">>
                /\ future.type = "TraceTaskAndPollFuture" =>
                      /\ CallsInStep(future.poll_instrument, k) = <<"on_enter", "on_exit">>
                      /\ CallsInStep(future.task_instrument, k) = <<"on_exit">>

C9_Witness ==
    /\ future.type = "TraceTaskAndPollFuture"
    /\ results = <<Ready("a"), Ready("b")>>
    /\ trace[2] = <<Enter("poll_instrument"), FutPoll, Exit("poll_instrument"),
                    Exit("task_instrument")>>

(* C10.  Single active span per instrument: as long as the driver has not   *)
(* resumed after completion, whether or not it has dropped the tracer, the  *)
(* calls each instrument received alternate on_enter, on_exit, on_enter,    *)
(* ... starting with on_enter, so its on_enter count minus its on_exit      *)
(* count is 0 or 1.                                                         *)
C10_SingleActiveSpan ==
    (Wrapped /\ NoResumeAfterCompletion) =>
        \A i \in Borrowed(future) :
            LET calls == CallsOn(i, Flat(trace))
            IN /\ \A n \in 1..Len(calls) :
                     calls[n] = (IF n % 2 = 1 THEN "on_enter" ELSE "on_exit")
               /\ Count(i, "on_enter") - Count(i, "on_exit") \in {0, 1}

C10_Witness ==
    /\ future.type = "TraceTaskAndPollFuture"
    /\ dropped
    /\ results = <<Pending, Pending>>
    /\ CallsOn("task_instrument", Flat(trace)) = <<"on_enter">>
    /\ CallsOn("poll_instrument", Flat(trace)) = <<"on_enter", "on_exit", "on_enter", "on_exit">>

(* The tracer has a polled_once field. *)
HasFlag == future.type \in {"TraceTaskFuture", "TraceTaskAndPollFuture"}

(* The instrument a tracer with a flag uses for the task span. *)
TaskLevel ==
    IF future.type = "TraceTaskFuture" THEN future.instrument ELSE future.task_instrument

(* The driver's step is a resumption. *)
IsResumption == results' # results

(* C11.  polled_once of a Task- or Combined-Tracer is false from creation   *)
(* until the first resumption and true from then on: it is true exactly     *)
(* when at least one resumption has happened, it never goes back to false,  *)
(* and the task-level on_enter count is 1 when it is true and 0 when it is  *)
(* false.                                                                   *)
C11_FlagState ==
    HasFlag =>
        /\ future.polled_once <=> Resumptions >= 1
        /\ Count(TaskLevel, "on_enter") = (IF future.polled_once THEN 1 ELSE 0)

C11_FlagStep == (HasFlag /\ future.polled_once) => future'.polled_once

C11_EnteredFlag == []C11_FlagState /\ [][C11_FlagStep]_vars

C11_Witness ==
    /\ future.type = "TraceTaskFuture"
    /\ future.polled_once
    /\ results = <<Pending, Ready("a"), Ready("b")>>
    /\ Count(future.instrument, "on_enter") = 1

(* C12.  A resumption that is not the first and in which the delegate       *)
(* returns Pending: a Task-Tracer makes no instrument call at all, its pin  *)
(* is untouched and polled_once stays true; a Combined-Tracer leaves the    *)
(* task-level instrument and its pin untouched while the step-level         *)
(* instrument receives exactly one on_enter followed by one on_exit.        *)
C12_SilentStep ==
    (IsResumption /\ Resumptions >= 1 /\ HasFlag /\ History' = Append(History, Pending)) =>
        LET ev == trace'[Len(trace')]
        IN /\ Len(trace') = Len(trace) + 1
           /\ future.polled_once /\ future'.polled_once
           /\ pins'[TaskLevel] = pins[TaskLevel]
           /\ CallsOn(TaskLevel, ev) = <<>>
           /\ future.type = "TraceTaskFuture" => ev = <<FutPoll>>
           /\ future.type = "TraceTaskAndPollFuture" =>
                 ev = <<Enter(future.poll_instrument), FutPoll, Exit(future.poll_instrument)>>

C12_IntermediateStepsSilent == [][C12_SilentStep]_vars

C12_Witness ==
    /\ future.type = "TraceTaskFuture"
    /\ results = <<Pending, Pending>>
    /\ trace[2] = <<FutPoll>>
    /\ pins[future.instrument].set_high = 1
    /\ pins[future.instrument].set_low = 0

(* The tracer has reported completion to the driver. *)
ReportedCompletion == \E k \in 1..Resumptions : IsReady(results[k])

(* The instrument a tracer uses for the step span, if it has one. *)
StepLevel ==
    CASE future.type = "TracePollFuture" -> {future.instrument}
      [] future.type = "TraceTaskAndPollFuture" -> {future.poll_instrument}
      [] OTHER -> {}

(* The number of spans open on instrument i. *)
OpenSpans(i) == Count(i, "on_enter") - Count(i, "on_exit")

(* C16.  Whenever control is back with a driver that has not resumed after  *)
(* completion, a step-level instrument has no open span, and a task-level   *)
(* instrument has exactly one open span when the tracer has been resumed    *)
(* at least once and has not yet reported completion, and none otherwise.   *)
C16_SpansBetweenResumptions ==
    (Wrapped /\ NoResumeAfterCompletion) =>
        /\ \A i \in StepLevel : Count(i, "on_enter") = Count(i, "on_exit")
        /\ HasFlag =>
              /\ Count(TaskLevel, "on_enter") >= Count(TaskLevel, "on_exit")
              /\ OpenSpans(TaskLevel) =
                    (IF Resumptions >= 1 /\ ~ReportedCompletion THEN 1 ELSE 0)
              /\ pins[TaskLevel].set_high - pins[TaskLevel].set_low = OpenSpans(TaskLevel)

C16_Witness ==
    /\ future.type = "TraceTaskAndPollFuture"
    /\ ~dropped
    /\ results = <<Pending, Pending, Pending>>
    /\ OpenSpans("task_instrument") = 1
    /\ Count("poll_instrument", "on_enter") = 3
    /\ Count("poll_instrument", "on_exit") = 3

(* The driver's step wraps the future. *)
IsWrapping == ~Wrapped /\ Wrapped'

(* C17.  Wrapping is silent and lazy: the step that calls trace_task,       *)
(* trace_poll or trace_task_and_poll makes no instrument call, writes no    *)
(* pin and does not poll the wrapped future; a tracer that has not been     *)
(* resumed, dropped or not, has left every instrument with no call; and     *)
(* the task-level on_enter is the first call of the first resumption and    *)
(* is made in no other.                                                     *)
C17_NothingBeforeFirstResumption ==
    Wrapped =>
        /\ Resumptions = 0 =>
              /\ trace = <<>>
              /\ History = <<>>
              /\ \A i \in Instruments : pins[i] = NewPin
        /\ HasFlag =>
              /\ Resumptions >= 1 => trace[1][1] = Enter(TaskLevel)
              /\ \A k \in 2..Resumptions : CallsInStep(TaskLevel, k) \in {<<>>, <<"on_exit">>}

C17_WrapStep ==
    IsWrapping =>
        /\ trace' = trace
        /\ pins' = pins
        /\ results' = results
        /\ future'.fut = future

C17_WrappingSilentAndLazy == []C17_NothingBeforeFirstResumption /\ [][C17_WrapStep]_vars

C17_Witness ==
    /\ future.type = "TraceTaskAndPollFuture"
    /\ dropped
    /\ Resumptions = 0
    /\ trace = <<>>
    /\ \A i \in Instruments : pins[i].set_high = 0 /\ pins[i].set_low = 0

(* C13.  Combined-Tracer equals double wrapping: after any sequence of      *)
(* resumptions, fut.trace_task_and_poll(t, p) has produced the same calls   *)
(* on t, p and the delegate in the same total order, the same results, the  *)
(* same state of the wrapped future and the same number of pin writes as    *)
(* fut.trace_poll(p).trace_task(t) driven over the same delegate answers.   *)
C13_CombinedIsDoubleWrapping ==
    (future.type = "TraceTaskAndPollFuture") =>
        LET t == future.task_instrument
            p == future.poll_instrument
            double == Drive(trace_task(trace_poll(Fresh(future.fut), p), t), History)
        IN /\ trace = double.trace
           /\ results = double.results
           /\ future.fut = double.this.fut.fut
           /\ future.polled_once = double.this.polled_once
           /\ \A i \in Instruments :
                 /\ pins[i].set_high = double.pins[i].set_high
                 /\ pins[i].set_low = double.pins[i].set_low

C13_Witness ==
    /\ future.type = "TraceTaskAndPollFuture"
    /\ results = <<Pending, Ready("a"), Ready("b")>>
    /\ trace[3] = <<Enter("poll_instrument"), FutPoll, Exit("poll_instrument"),
                    Exit("task_instrument")>>

-----------------------------------------------------------------------------
(* A driver that never abandons the tracer and keeps resuming it until it   *)
(* reports completion, over a wrapped future that completes within MaxPolls *)
(* steps.                                                                   *)

(* The wrapped future completes at the latest on its MaxPolls-th poll. *)
CompletesInTime == Len(results') = MaxPolls => IsReady(results'[Len(results')])

DriveTask ==
    /\ ~ReportedCompletion
    /\ PollTask
    /\ CompletesInTime

DrivePoll ==
    /\ ~ReportedCompletion
    /\ PollPoll
    /\ CompletesInTime

DriveTaskAndPoll ==
    /\ ~ReportedCompletion
    /\ PollTaskAndPoll
    /\ CompletesInTime

NextToCompletion ==
    \/ WrapTask
    \/ WrapPoll
    \/ WrapTaskAndPoll
    \/ DriveTask
    \/ DrivePoll
    \/ DriveTaskAndPoll

(* A resumption as the driver sees it: poll() was called and what it gave   *)
(* back is recorded.  Every DriveTask, DrivePoll and DriveTaskAndPoll step *)
(* is one, and one of them is possible exactly when this is.               *)
Resumes ==
    /\ ~ReportedCompletion
    /\ CanPoll
    /\ \E r \in PollResults \cup {Unwound} : results' = Append(results, r)

(* The driver keeps resuming the tracer for as long as it may. *)
SpecToCompletion ==
    /\ Init
    /\ [][NextToCompletion]_vars
    /\ WF_results(Resumes)

(* The calls the task-level instrument received (none without such an instrument). *)
TaskCalls == IF HasFlag THEN CallsOn(TaskLevel, Flat(trace)) ELSE <<>>

TaskExited == TaskCalls = <<"on_enter", "on_exit">>

(* C15.  Eventual task exit: when the driver keeps resuming a Task- or      *)
(* Combined-Tracer until it reports completion and the wrapped future       *)
(* completes after finitely many steps, the task-level on_exit eventually   *)
(* fires, it never fires more than once, and every task-level on_enter is   *)
(* eventually followed by it.                                               *)
C15_EventualTaskExit ==
    /\ HasFlag ~> TaskExited
    /\ (TaskCalls = <<"on_enter">>) ~> TaskExited
    /\ [](TaskCalls \in {<<>>, <<"on_enter">>, <<"on_enter", "on_exit">>})
    /\ [](TaskExited => ReportedCompletion)

C15_Witness ==
    /\ future.type = "TraceTaskFuture"
    /\ results = <<Pending, Pending, Ready("a")>>
    /\ TaskExited

-----------------------------------------------------------------------------
(* One driver that owns two futures, traces each with instruments of its   *)
(* own and polls them in any interleaving.  A poll runs to its return      *)
(* before the driver does anything else.                                   *)

(* The total number of polls the driver makes. *)
MaxResumptions == 3

Computations == {"first", "second"}

(* The instruments the caller builds: each computation gets its own. *)
Own(c, role) ==
    CASE c = "first" /\ role = "task_instrument" -> "first_task_instrument"
      [] c = "first" /\ role = "poll_instrument" -> "first_poll_instrument"
      [] c = "second" /\ role = "task_instrument" -> "second_task_instrument"
      [] c = "second" /\ role = "poll_instrument" -> "second_poll_instrument"

AllInstruments == {Own(c, role) : c \in Computations, role \in Instruments}

PinWrites == AllInstruments \X {"set_high", "set_low"}

(* Every pin write takes effect: what a failing write changes is the pin  *)
(* level alone, never a call.                                              *)
WritesOk == [k \in PinWrites |-> TRUE]

InitTwo ==
    /\ future = [type |-> "F", history |-> <<>>]
    /\ pins = [i \in AllInstruments |-> NewPin]
    /\ adapter = [i \in AllInstruments |-> "none"]
    /\ trace = <<>>
    /\ results = <<>>
    /\ dropped = FALSE
    /\ tasks = [c \in Computations |->
                  [future |-> [type |-> "F", history |-> <<>>], results |-> <<>>]]
    /\ log = <<>>

WrapTaskOf ==
    \E c \in Computations : \E a \in Adapters :
        /\ tasks[c].future.type = "F"
        /\ tasks' = [tasks EXCEPT ![c].future = trace_task(@, Own(c, "task_instrument"))]
        /\ adapter' = [adapter EXCEPT ![Own(c, "task_instrument")] = a]
        /\ UNCHANGED <<future, pins, trace, results, dropped, log>>

WrapPollOf ==
    \E c \in Computations : \E a \in Adapters :
        /\ tasks[c].future.type = "F"
        /\ tasks' = [tasks EXCEPT ![c].future = trace_poll(@, Own(c, "poll_instrument"))]
        /\ adapter' = [adapter EXCEPT ![Own(c, "poll_instrument")] = a]
        /\ UNCHANGED <<future, pins, trace, results, dropped, log>>

WrapTaskAndPollOf ==
    \E c \in Computations : \E a \in [Instruments -> Adapters] :
        /\ tasks[c].future.type = "F"
        /\ tasks' = [tasks EXCEPT ![c].future =
                        trace_task_and_poll(@, Own(c, "task_instrument"), Own(c, "poll_instrument"))]
        /\ adapter' = [adapter EXCEPT ![Own(c, "task_instrument")] = a["task_instrument"],
                                      ![Own(c, "poll_instrument")] = a["poll_instrument"]]
        /\ UNCHANGED <<future, pins, trace, results, dropped, log>>

TotalResumptions == Len(tasks["first"].results) + Len(tasks["second"].results)

(* `self.project()` had polled_once been one flag shared by every tracer. *)
project_SharedFlag(self) ==
    IF self.type \in {"TraceTaskFuture", "TraceTaskAndPollFuture"}
    THEN [self EXCEPT !.polled_once =
            \E c \in Computations :
                /\ tasks[c].future.type \in {"TraceTaskFuture", "TraceTaskAndPollFuture"}
                /\ tasks[c].future.polled_once]
    ELSE self

(* `let this = self.project()`: the fields a poll works on are the polled  *)
(* tracer's own.                                                           *)
project(self) == self

(* The driver polls one of its two tracers, one that has not completed. *)
ResumeOne ==
    \E c \in Computations :
        /\ tasks[c].future.type # "F"
        /\ TotalResumptions < MaxResumptions
        /\ \A k \in 1..Len(tasks[c].results) : ~IsReady(tasks[c].results[k])
        /\ \E answer \in PollResults :
              LET r == Future_poll(project(tasks[c].future), NewEnv(pins, WritesOk, answer))
                  k == Len(tasks[c].results) + 1
              IN /\ tasks' = [tasks EXCEPT ![c] =
                                [future |-> r.this, results |-> Append(@.results, r.result)]]
                 /\ pins' = r.env.pins
                 /\ log' = log \o [n \in 1..Len(r.env.ev) |->
                                     [computation |-> c, resumption |-> k, call |-> r.env.ev[n]]]
        /\ UNCHANGED <<future, adapter, trace, results, dropped>>

NextTwo ==
    \/ WrapTaskOf
    \/ WrapPollOf
    \/ WrapTaskAndPollOf
    \/ ResumeOne

SpecTwo == InitTwo /\ [][NextTwo]_vars

RECURSIVE DriveAlone(_, _)
(* The run in which the driver polls only future f0, Len(answers) times,   *)
(* the wrapped future returning answers[k] at its k-th poll, over pins     *)
(* whose writes never fail.                                                *)
DriveAlone(f0, answers) ==
    IF answers = <<>>
    THEN [this |-> f0, pins |-> [i \in AllInstruments |-> NewPin],
          trace |-> <<>>, results |-> <<>>]
    ELSE LET n == Len(answers)
             prev == DriveAlone(f0, SubSeq(answers, 1, n - 1))
             r == Future_poll(prev.this, NewEnv(prev.pins, WritesOk, answers[n]))
         IN [this |-> r.this, pins |-> r.env.pins,
             trace |-> Append(prev.trace, r.env.ev),
             results |-> Append(prev.results, r.result)]

(* The calls made during the k-th poll of computation c, in order. *)
CallsOfResumption(c, k) ==
    LET mine == SelectSeq(log, LAMBDA e : e.computation = c /\ e.resumption = k)
    IN [n \in 1..Len(mine) |-> mine[n].call]

(* The calls of all polls of both computations, in order. *)
LogCalls == [n \in 1..Len(log) |-> log[n].call]

(* The computations polled, in the order of the driver's polls. *)
PollOrder ==
    LET starts == SelectSeq([n \in 1..Len(log) |-> <<n, log[n]>>],
                            LAMBDA e : e[1] = 1 \/ log[e[1] - 1].computation # e[2].computation
                                                \/ log[e[1] - 1].resumption # e[2].resumption)
    IN [n \in 1..Len(starts) |-> starts[n][2].computation]

(* C14.  Independence under interleaved driving: when one driver polls two *)
(* separately traced futures, each tracer over instruments of its own, in  *)
(* any interleaving, the calls of one poll are never interleaved with      *)
(* those of another, and each instrument receives the call sequence it      *)
(* receives when its future is driven alone, poll by poll in the order the *)
(* driver polled that future.                                              *)
C14_InterleavedIndependence ==
    /\ \A m \in 1..Len(log) : \A n \in m..Len(log) :
          (log[m].computation = log[n].computation /\ log[m].resumption = log[n].resumption) =>
              \A j \in m..n : /\ log[j].computation = log[m].computation
                              /\ log[j].resumption = log[m].resumption
    /\ \A m \in 1..Len(log) : \A n \in m..Len(log) :
          log[m].computation = log[n].computation => log[m].resumption <= log[n].resumption
    /\ \A c \in Computations :
          tasks[c].future.type # "F" =>
              LET alone == DriveAlone(Fresh(tasks[c].future), tasks[c].future.fut.history)
              IN /\ tasks[c].future = alone.this
                 /\ tasks[c].results = alone.results
                 /\ \A k \in 1..Len(tasks[c].results) : CallsOfResumption(c, k) = alone.trace[k]
                 /\ \A i \in Borrowed(tasks[c].future) :
                       /\ CallsOn(i, LogCalls) = CallsOn(i, Flat(alone.trace))
                       /\ pins[i].set_high = alone.pins[i].set_high
                       /\ pins[i].set_low = alone.pins[i].set_low
                 /\ \A i \in AllInstruments \ Borrowed(tasks[c].future) :
                       CallsOn(i, Flat(alone.trace)) = <<>>

C14_Witness ==
    /\ tasks["first"].future.type = "TraceTaskFuture"
    /\ tasks["second"].future.type = "TraceTaskAndPollFuture"
    /\ PollOrder = <<"first", "second", "first">>
    /\ tasks["first"].results = <<Pending, Ready("a")>>
    /\ tasks["second"].results = <<Pending>>

=============================================================================
